---- MODULE Spec2Model ----
(***************************************************************************)
(* Model of openstack_control.py: a command-line wrapper that drives VM    *)
(* lifecycle operations and image management against an OpenStack cloud.  *)
(*                                                                         *)
(* One behaviour is one process invocation: main() dispatches one command  *)
(* for one name, the command issues remote calls and polls.  Every remote  *)
(* call (a list query, a mutation, a ping) and every sleep is one step;    *)
(* between two steps the cloud may change in any way (other clients, the   *)
(* cloud's own asynchronous progress).                                     *)
(***************************************************************************)
EXTENDS Naturals, Sequences, FiniteSets

\* ---------------------------------------------------------------- bounds
\* Servers ever created under the name (by this tool or by anybody else).
MaxServers == 2
\* Images ever created under the name.
MaxImages == 2
\* Status queries one invocation may attempt (the code's loops are unbounded).
MaxPolls == 3

\* ------------------------------------------------------ program constants
\* power_state value that means "running" (lines 110, 158, 161, 170, 173).
RUNNING == 1

VARIABLES
    servers,      \* nova.servers.list(search_opts={'name': name}): the servers' ids, in order
    info,         \* servers[1].to_dict(): status, power state, addresses of the first server
    nextId,       \* the id the next created server gets (ids are never reused)
    deleting,     \* ids of the servers whose deletion was requested
    images,       \* ids of the images carrying the name
    nextImg,      \* the id the next created image gets
    cmd,          \* args.cmd: the command main() dispatched ("none" before)
    pc,           \* the line the command is at
    outcome,      \* of the called function: "none", "running", "returned", "raised"
    error,        \* the exception that ended the function or the process ("" if none)
    exit,         \* of the process: "", "ok", "crash"
    status,       \* vm_create's local `status` (line 61)
    ping_response,\* vm_create's local `ping_response` (line 70)
    last_status,  \* what the most recent vm_status(name) call gave: NoCall, Failed, None or a dict
    image,        \* image_delete's local `image` (line 197): an image id, 0 before
    calls,        \* the mutation calls issued so far, in order
    nq,           \* number of vm_status calls made, per call site
    nProbe,       \* number of ping attempts made
    slept,        \* a time.sleep ran since the most recent vm_status call
    sawVm,        \* some vm_status call of this invocation found a server
    sawActive,    \* some vm_status call of this invocation returned status ACTIVE
    probedOk,     \* a ping succeeded after an ACTIVE observation
    created,      \* id of the server this invocation created (0 if none)
    counting      \* the history counts calls exactly (and the run ends after MaxPolls
                  \* queries), or keeps only their parity (the loops run unbounded)

backend == <<servers, info, nextId, deleting, images, nextImg>>
locals  == <<status, ping_response, image>>
history == <<last_status, calls, nq, nProbe, slept, sawVm, sawActive, probedOk,
             created>>
control == <<cmd, pc, outcome, error, exit, counting>>
vars    == <<servers, info, nextId, deleting, images, nextImg, cmd, pc, outcome, error,
             exit, status, ping_response, last_status, image, calls, nq, nProbe,
             slept, sawVm, sawActive, probedOk, created, counting>>

\* ------------------------------------------------------------ value sets
Statuses    == {"BUILD", "ACTIVE", "ERROR"}
PowerStates == {0, RUNNING}
\* An address is a sequence of octets; Python's '' is the empty sequence.
EmptyStr == << >>
Ip(id)   == <<10, 0, 0, id>>
\* server_info['addresses']: the network attachments, (label, address) each.
NoNetworks   == << >>
Attached(id) == << <<"private", Ip(id)>> >>

\* What to_dict() gives for a server just booted, and for the server `id` at
\* any later time.  Line 121 takes server[0]: the tool never reads anything
\* of the other servers of a listing, so only the first one's is kept.
NewInfo == [status |-> "BUILD", power_state |-> 0, addresses |-> NoNetworks]
Infos(id) == [status : Statuses, power_state : PowerStates,
              addresses : {NoNetworks, Attached(id)}]

VmCommands    == {"vm_status", "vm_create", "vm_delete", "vm_start", "vm_stop"}
ImageCommands == {"image_upload", "image_delete"}
Commands      == VmCommands \cup ImageCommands

\* Call sites of vm_status: before a loop, in a state wait, in the
\* reachability wait, in main() after vm_create.
Sites == {"first", "wait", "reach", "main"}

\* Python's None, as vm_status returns it (line 120).
None   == [none |-> TRUE]
\* No vm_status call made yet / the call raised out of nova.servers.list.
NoCall == [nocall |-> TRUE]
Failed == [failed |-> TRUE]

\* Outcomes of one remote call as far as the tool can tell: the cloud answers,
\* or the client library raises (connection lost, token expired, quota, ...).
Answers == {"ok", "fail"}

Total(f) == f["first"] + f["wait"] + f["reach"] + f["main"]

\* Mutant: line 120 returns the dict with placeholders instead of None.
vm_status_placeholder(listing, server_info) ==
    IF listing = << >>
    THEN [server |-> 0, id |-> 0, status |-> "", power_state |-> 0,
          network |-> <<"", EmptyStr>>]
    ELSE [server      |-> listing[1],
          id          |-> listing[1],
          status      |-> server_info.status,
          power_state |-> server_info.power_state,
          network     |-> IF server_info.addresses = NoNetworks
                          THEN <<"", EmptyStr>>
                          ELSE server_info.addresses[1]]

\* ------------------------------------------------------------ vm_status
\* Lines 113-150: the dict built from the first server of the listing, or None.
vm_status(listing, server_info) ==
    IF listing = << >>
    THEN None
    ELSE LET server == listing[1]
             networks == server_info.addresses
         IN [server      |-> server,
             id          |-> server,
             status      |-> server_info.status,
             power_state |-> server_info.power_state,
             network     |-> IF networks = NoNetworks
                             THEN <<"", EmptyStr>>
                             ELSE networks[1]]

IsDict(v) == v \notin {None, NoCall, Failed}

\* nq after one more vm_status call at `site`: the count per site, or (the
\* loops unbounded) no more than the parity of the calls of the current wait.
Counted(site) ==
    IF counting THEN [nq EXCEPT ![site] = @ + 1]
    ELSE [s \in Sites |-> IF s = site THEN 1 - nq[s] ELSE 0]

\* One vm_status(name) call at `site` that the cloud answered.
Observe(site) ==
    LET v == vm_status(servers, info)
    IN /\ last_status' = v
       /\ nq' = Counted(site)
       /\ slept' = FALSE
       /\ sawVm' = (sawVm \/ IsDict(v))
       /\ sawActive' = (sawActive \/ (IsDict(v) /\ v.status = "ACTIVE"))

\* One vm_status(name) call at `site` that raised out of the client library.
ObserveFailed(site) ==
    /\ last_status' = Failed
    /\ nq' = Counted(site)
    /\ slept' = FALSE
    /\ UNCHANGED <<sawVm, sawActive>>

CanQuery == counting => Total(nq) < MaxPolls

\* The exception the expression vm_status(name)[key] raises, "" if none:
\* whatever the client library raised, or TypeError for subscripting None.
Subscript(r) ==
    IF r = "fail" THEN "ClientException"
    ELSE IF vm_status(servers, info) = None THEN "TypeError"
    ELSE ""

\* One vm_status(name) call at `site` with the cloud's answer r.
Query(site, r) == IF r = "fail" THEN ObserveFailed(site) ELSE Observe(site)

\* The function returns and, main() having nothing left to do, the process exits.
Return ==
    /\ pc' = "exit" /\ outcome' = "returned" /\ exit' = "ok"
    /\ UNCHANGED <<cmd, counting, error>>

\* An exception leaves the function; main() catches nothing.
Raise(e) ==
    /\ pc' = "exit" /\ outcome' = "raised" /\ error' = e /\ exit' = "crash"
    /\ UNCHANGED <<cmd, counting>>

Goto(l) == pc' = l /\ UNCHANGED <<cmd, counting, outcome, error, exit>>

\* ------------------------------------------------------------------ Init
\* The process has started and nothing was called yet.  What the cloud holds
\* when the command makes its first call is whatever the cloud's steps have
\* made of it by then.
Started ==
    /\ servers = << >> /\ info = NewInfo /\ nextId = 1 /\ deleting = {}
    /\ images = {} /\ nextImg = 1
    /\ cmd = "none" /\ pc = "main" /\ outcome = "none" /\ error = "" /\ exit = ""
    /\ status = "" /\ ping_response = FALSE /\ image = 0
    /\ last_status = NoCall /\ calls = << >>
    /\ nq = [s \in Sites |-> 0] /\ nProbe = 0
    /\ slept = FALSE /\ sawVm = FALSE /\ sawActive = FALSE /\ probedOk = FALSE /\ created = 0

\* The bounded exploration: every call is counted.
Init == Started /\ counting = TRUE

\* The unbounded loops: queries and pings are not counted, so a wait may go
\* on for ever within finitely many states.
LiveInit == Started /\ counting = FALSE

Entry(c) ==
    CASE c = "vm_status"    -> "status_255"
      [] c = "vm_create"    -> "create_48"
      [] c = "vm_delete"    -> "delete_90"
      [] c = "vm_start"     -> "start_169"
      [] c = "vm_stop"      -> "stop_157"
      [] c = "image_upload" -> "imgdel_197"
      [] c = "image_delete" -> "imgdel_197"

\* Lines 246-261: main() dispatches the command given on the command line.
main ==
    /\ pc = "main"
    /\ \E c \in Commands :
         /\ cmd' = c /\ pc' = Entry(c) /\ outcome' = "running"
    /\ UNCHANGED <<backend, locals, history, error, exit, counting>>

\* ------------------------------------------------------------- the cloud
Running == outcome = "running" \/ pc = "main_253" \/ pc = "main_256"

InsertAt(s, i, e) == SubSeq(s, 1, i - 1) \o <<e>> \o SubSeq(s, i, Len(s))
RemoveAt(s, i)    == SubSeq(s, 1, i - 1) \o SubSeq(s, i + 1, Len(s))

\* A server boots: where it shows up in the listing is the cloud's choice.
Boot(id) ==
    /\ \E i \in 1..(Len(servers) + 1) :
         /\ servers' = InsertAt(servers, i, id)
         /\ info' = IF i = 1 THEN NewInfo ELSE info
    /\ nextId' = id + 1

\* Another client boots a server with the same name.
CloudBoot ==
    /\ Running /\ cmd \in VmCommands
    /\ nextId <= MaxServers
    /\ Boot(nextId)
    /\ UNCHANGED <<deleting, images, nextImg, control, locals, history>>

\* The first server changes: it gets built or fails, or powers on or off, or
\* gets or loses its address.
CloudUpdate ==
    /\ Running /\ cmd \in VmCommands
    /\ servers # << >>
    /\ \/ \E s \in Statuses \ {info.status} :
            info' = [info EXCEPT !.status = s]
       \/ \E p \in PowerStates \ {info.power_state} :
            info' = [info EXCEPT !.power_state = p]
       \/ \E a \in {NoNetworks, Attached(servers[1])} \ {info.addresses} :
            info' = [info EXCEPT !.addresses = a]
    /\ UNCHANGED <<servers, nextId, deleting, images, nextImg, control, locals,
                   history>>

\* A server is gone: a requested deletion completed, or somebody else
\* deleted it.  The server listed next, if any, comes first in any state.
CloudRemove ==
    /\ Running /\ cmd \in VmCommands
    /\ \E i \in 1..Len(servers) :
         /\ servers' = RemoveAt(servers, i)
         /\ deleting' = deleting \ {servers[i]}
         /\ IF i > 1 THEN UNCHANGED info
            ELSE IF Len(servers) = 1 THEN info' = NewInfo
            ELSE info' \in Infos(servers[2])
    /\ UNCHANGED <<nextId, images, nextImg, control, locals, history>>

\* Another client adds or removes an image with the same name.
CloudImage ==
    /\ Running /\ cmd \in ImageCommands
    /\ \/ /\ nextImg <= MaxImages
          /\ images' = images \cup {nextImg}
          /\ nextImg' = nextImg + 1
       \/ /\ \E i \in images : images' = images \ {i}
          /\ UNCHANGED nextImg
    /\ UNCHANGED <<servers, info, nextId, deleting, control, locals, history>>

\* ------------------------------------------------------- main: --status
\* Line 255: status = vm_status(args.name).
main_status_255 ==
    /\ pc = "status_255" /\ CanQuery
    /\ \E r \in Answers :
         /\ Query("first", r)
         /\ IF r = "ok"
            THEN /\ pc' = "main_256" /\ outcome' = "returned"
                 /\ UNCHANGED <<cmd, counting, error, exit>>
            ELSE Raise("ClientException")
    /\ UNCHANGED <<backend, locals, calls, nProbe, probedOk, created>>

\* Lines 256-257: for stat in status: print ...  Iterating None raises TypeError.
main_status_256 ==
    /\ pc = "main_256"
    /\ IF last_status = None
       THEN pc' = "exit" /\ exit' = "crash" /\ error' = "TypeError"
       ELSE pc' = "exit" /\ exit' = "ok" /\ UNCHANGED error
    /\ UNCHANGED <<backend, locals, history, cmd, counting, outcome>>

\* ------------------------------------------------------------ vm_create
\* Mutant: the loop test compares with the initial value instead of 'ACTIVE'.
create_status_pending_initial(st) == st = ""

\* Mutant: the status wait of line 62 gives up on a VM that failed to build.
create_status_pending_unless_error(st) == st \notin {"ACTIVE", "ERROR"}

\* Line 62: while status != 'ACTIVE'.
create_status_pending(st) == st # "ACTIVE"

\* Mutant: line 65 without its handler.
create_status_catches_nothing(e) == FALSE

\* Line 65: except TypeError.
create_status_catches(e) == e = "TypeError"

\* Mutant: the loop of line 71 never sees the successful ping.
create_ping_pending_always(resp) == TRUE

\* Line 71: while ping_response is False.
create_ping_pending(resp) == resp = FALSE

\* Mutant: line 79 catches TypeError only, as line 65 does.
create_ping_catches_typeerror(e) == e = "TypeError"

\* Line 79: a bare except.
create_ping_catches(e) == TRUE

\* What a find() of the client library gives: the one match, NotFound for
\* none, NoUniqueMatch for several, or whatever error the call itself raised.
\* The networks, the flavors and the images of other names are not part of
\* the cloud modelled here, so the answer is an input.
FindAnswers == {"ok", "NotFound", "NoUniqueMatch", "ClientException"}

\* One find() of lines 48-51; the exception it raises leaves vm_create.
create_find(next) ==
    /\ \E r \in FindAnswers :
         IF r = "ok" THEN Goto(next) ELSE Raise(r)
    /\ UNCHANGED <<backend, locals, history>>

\* Line 48: nova.networks.find(label=network).
vm_create_48 == pc = "create_48" /\ create_find("create_50")

\* Line 50: image = nova.images.find(name=image).
vm_create_50 == pc = "create_50" /\ create_find("create_51")

\* Line 51: flavor = nova.flavors.find(name=flavor).
vm_create_51 == pc = "create_51" /\ create_find("create_54")

\* Lines 54-61: nova.servers.create(...); status = ''.
vm_create_54 ==
    /\ pc = "create_54"
    /\ calls' = Append(calls, "servers.create")
    /\ \/ /\ nextId <= MaxServers
          /\ Boot(nextId)
          /\ created' = nextId
          /\ status' = ""
          /\ Goto(IF create_status_pending("") THEN "create_64" ELSE "create_73")
       \/ /\ Raise("ClientException")
          /\ UNCHANGED <<servers, info, nextId, created, status>>
    /\ UNCHANGED <<deleting, images, nextImg, ping_response, image,
                   last_status, nq, nProbe, slept, sawVm, sawActive, probedOk>>

\* Lines 63-66: status = vm_status(name)['status'], TypeError -> continue.
vm_create_64 ==
    /\ pc = "create_64" /\ CanQuery
    /\ \E r \in Answers :
         /\ Query("wait", r)
         /\ LET e == Subscript(r)
            IN IF e = ""
               THEN /\ status' = vm_status(servers, info).status
                    /\ Goto("create_67")
               ELSE IF create_status_catches(e)
               THEN /\ Goto(IF create_status_pending(status)
                            THEN "create_64" ELSE "create_73")
                    /\ UNCHANGED status
               ELSE /\ Raise(e)
                    /\ UNCHANGED status
    /\ UNCHANGED <<backend, ping_response, image, calls, nProbe, probedOk, created>>

\* Line 67: time.sleep(1), then the loop test of line 62; line 70 on exit.
vm_create_67 ==
    /\ pc = "create_67"
    /\ slept' = TRUE
    /\ IF create_status_pending(status)
       THEN Goto("create_64") /\ UNCHANGED ping_response
       ELSE Goto("create_73") /\ ping_response' = FALSE
    /\ UNCHANGED <<backend, status, image, last_status, calls, nq, nProbe,
                   sawVm, sawActive, probedOk, created>>

\* Line 82: return; main() goes on to line 253.
vm_create_82 ==
    /\ pc' = "main_253" /\ outcome' = "returned"
    /\ UNCHANGED <<cmd, counting, error, exit>>

\* The loop test of line 71, reached from lines 78-81 and from the continue
\* of line 80.
create_ping_loop ==
    IF create_ping_pending(ping_response') THEN Goto("create_73") ELSE vm_create_82

\* Line 73: ip = vm_status(name)['network'][1]; any exception -> continue.
vm_create_73 ==
    /\ pc = "create_73" /\ CanQuery
    /\ UNCHANGED <<backend, locals, calls, nProbe, probedOk, created>>
    /\ \E r \in Answers :
         /\ Query("reach", r)
         /\ LET e == Subscript(r)
            IN IF e = ""
               THEN Goto("create_75")
               ELSE IF create_ping_catches(e)
               THEN create_ping_loop
               ELSE Raise(e)

\* Lines 74-80: ping -c 1 ip.  check_call returns 0 or raises
\* CalledProcessError, which the bare except turns into continue.
vm_create_75 ==
    /\ pc = "create_75"
    /\ nProbe' = IF counting THEN nProbe + 1 ELSE nProbe
    /\ \E pong \in BOOLEAN :
         IF pong
         THEN /\ ping_response' = TRUE
              /\ probedOk' = (probedOk \/ sawActive)
              /\ Goto("create_81")
         ELSE /\ UNCHANGED <<ping_response, probedOk>>
              /\ IF create_ping_catches("CalledProcessError")
                 THEN create_ping_loop
                 ELSE Raise("CalledProcessError")
    /\ UNCHANGED <<backend, status, image, last_status, calls, nq, slept,
                   sawVm, sawActive, created>>

\* Line 81: time.sleep(2), then the loop test of line 71.
vm_create_81 ==
    /\ pc = "create_81"
    /\ slept' = TRUE
    /\ UNCHANGED <<backend, locals, last_status, calls, nq, nProbe,
                   sawVm, sawActive, probedOk, created>>
    /\ create_ping_loop

\* Line 253: print vm_status(args.name)['network'][1].
main_create_253 ==
    /\ pc = "main_253" /\ CanQuery
    /\ \E r \in Answers :
         /\ Query("main", r)
         /\ LET e == Subscript(r)
            IN IF e = ""
               THEN pc' = "exit" /\ exit' = "ok" /\ UNCHANGED error
               ELSE pc' = "exit" /\ exit' = "crash" /\ error' = e
    /\ UNCHANGED <<backend, locals, calls, nProbe, probedOk, created, cmd, counting, outcome>>

\* ------------------------------------------------------------ vm_delete
\* Mutant: line 91 without its handler.
delete_request_catches_nothing(e) == FALSE

\* Line 91: except TypeError around the deletion request.
delete_request_catches(e) == e = "TypeError"

\* Mutant: line 99 as a bare except.
delete_wait_catches_all(e) == TRUE

\* Line 99: except TypeError in the wait loop.
delete_wait_catches(e) == e = "TypeError"

Listed(id) == \E i \in 1..Len(servers) : servers[i] = id

\* Lines 89-92, first half: vm_status(name)['server'].
vm_delete_90 ==
    /\ pc = "delete_90" /\ CanQuery
    /\ \E r \in Answers :
         /\ Query("first", r)
         /\ LET e == Subscript(r)
            IN IF e = "" THEN Goto("delete_90_call")
               ELSE IF delete_request_catches(e) THEN Goto("delete_98")
               ELSE Raise(e)
    /\ UNCHANGED <<backend, locals, calls, nProbe, probedOk, created>>

\* Lines 89-92, second half: .delete() on the server found.  The cloud
\* answers 404 (NotFound) when that server is gone by now.
vm_delete_90_call ==
    /\ pc = "delete_90_call"
    /\ calls' = Append(calls, "server.delete")
    /\ IF Listed(last_status.server)
       THEN \/ /\ deleting' = deleting \cup {last_status.server}
               /\ Goto("delete_98")
            \/ /\ UNCHANGED deleting
               /\ IF delete_request_catches("ClientException")
                  THEN Goto("delete_98") ELSE Raise("ClientException")
       ELSE /\ UNCHANGED deleting
            /\ IF delete_request_catches("NotFound")
               THEN Goto("delete_98") ELSE Raise("NotFound")
    /\ UNCHANGED <<servers, info, nextId, images, nextImg, locals, last_status, nq,
                   nProbe, slept, sawVm, sawActive, probedOk, created>>

\* Mutant: the wait loop asks again for the deletion of the server it finds.
vm_delete_98_again ==
    /\ pc = "delete_98" /\ CanQuery
    /\ \E r \in Answers :
         /\ Query("wait", r)
         /\ LET e == Subscript(r)
            IN IF e = ""
               THEN Goto("delete_98") /\ calls' = Append(calls, "server.delete")
               ELSE /\ UNCHANGED calls
                    /\ IF e = "TypeError" THEN Return ELSE Raise(e)
    /\ UNCHANGED <<backend, locals, nProbe, probedOk, created>>

\* Lines 96-100: while True: vm_status(name)['server']; TypeError -> return.
vm_delete_98 ==
    /\ pc = "delete_98" /\ CanQuery
    /\ \E r \in Answers :
         /\ Query("wait", r)
         /\ LET e == Subscript(r)
            IN IF e = "" THEN Goto("delete_98")
               ELSE IF delete_wait_catches(e) THEN Return
               ELSE Raise(e)
    /\ UNCHANGED <<backend, locals, calls, nProbe, probedOk, created>>

\* ------------------------------------------------------- vm_stop, vm_start
\* Line 158: if vm_info['power_state'] == 1.
stop_needed(power_state) == power_state = RUNNING

\* Mutant: line 161 with the comparison of line 173.
stop_pending_inverted(power_state) == power_state # RUNNING

\* Line 161: while vm_status(name)['power_state'] == 1.
stop_pending(power_state) == power_state = RUNNING

\* Mutant: line 170 without the test.
start_needed_always(power_state) == TRUE

\* Line 170: if vm_info['power_state'] != 1.
start_needed(power_state) == power_state # RUNNING

\* Line 173: while vm_status(name)['power_state'] != 1.
start_pending(power_state) == power_state # RUNNING

\* Lines 157-158 and 169-170: vm_info = vm_status(name), then the test of
\* vm_info['power_state'].  Nothing is caught here.
FirstPowerQuery(needed, call) ==
    /\ CanQuery
    /\ \E r \in Answers :
         /\ Query("first", r)
         /\ LET e == Subscript(r)
            IN IF e # "" THEN Raise(e)
               ELSE IF needed THEN Goto(call)
               ELSE Return
    /\ UNCHANGED <<backend, locals, calls, nProbe, probedOk, created>>

\* Lines 160 and 172: vm_info['server'].stop() / .start() on the server found
\* by the first query.  The cloud carries the request out asynchronously.
PowerCall(name, wait) ==
    /\ calls' = Append(calls, name)
    /\ IF Listed(last_status.server)
       THEN Goto(wait) \/ Raise("ClientException")
       ELSE Raise("NotFound")
    /\ UNCHANGED <<backend, locals, last_status, nq, nProbe, slept, sawVm, sawActive,
                   probedOk, created>>

\* Mutant: the loop test of lines 161 / 173 treats a missing VM as not yet
\* in the target state.
PowerWait_retrying(pending, sleep) ==
    /\ CanQuery
    /\ \E r \in Answers :
         /\ Query("wait", r)
         /\ LET e == Subscript(r)
            IN IF e = "TypeError" THEN Goto(sleep)
               ELSE IF e # "" THEN Raise(e)
               ELSE IF pending THEN Goto(sleep)
               ELSE Return
    /\ UNCHANGED <<backend, locals, calls, nProbe, probedOk, created>>

\* Lines 161 and 173: the loop test, a fresh vm_status(name)['power_state'].
PowerWait(pending, sleep) ==
    /\ CanQuery
    /\ \E r \in Answers :
         /\ Query("wait", r)
         /\ LET e == Subscript(r)
            IN IF e # "" THEN Raise(e)
               ELSE IF pending THEN Goto(sleep)
               ELSE Return
    /\ UNCHANGED <<backend, locals, calls, nProbe, probedOk, created>>

\* Lines 162 and 174: time.sleep(1).
PowerSleep(wait) ==
    /\ slept' = TRUE
    /\ Goto(wait)
    /\ UNCHANGED <<backend, locals, last_status, calls, nq, nProbe, sawVm, sawActive,
                   probedOk, created>>

vm_stop_157 ==
    /\ pc = "stop_157"
    /\ FirstPowerQuery(stop_needed(vm_status(servers, info).power_state), "stop_160")

vm_stop_160 ==
    /\ pc = "stop_160"
    /\ PowerCall("server.stop", "stop_161")

vm_stop_161 ==
    /\ pc = "stop_161"
    /\ PowerWait(stop_pending(vm_status(servers, info).power_state), "stop_162")

vm_stop_162 ==
    /\ pc = "stop_162"
    /\ PowerSleep("stop_161")

vm_start_169 ==
    /\ pc = "start_169"
    /\ FirstPowerQuery(start_needed(vm_status(servers, info).power_state), "start_172")

vm_start_172 ==
    /\ pc = "start_172"
    /\ PowerCall("server.start", "start_173")

vm_start_173 ==
    /\ pc = "start_173"
    /\ PowerWait(start_pending(vm_status(servers, info).power_state), "start_174")

vm_start_174 ==
    /\ pc = "start_174"
    /\ PowerSleep("start_173")

\* ------------------------------------------- image_upload, image_delete
\* Mutant: line 186 without its handler.
upload_catches_nothing(e) == FALSE

\* Line 186: except novaclient.exceptions.NotFound.
upload_catches(e) == e = "NotFound"

\* nova.images.find(name=name), line 197: the exception it raises, "" when
\* exactly one image carries the name.
find_image(imgs) ==
    IF imgs = {} THEN "NotFound"
    ELSE IF Cardinality(imgs) > 1 THEN "NoUniqueMatch"
    ELSE ""

\* Mutant: the NotFound handler of lines 183-188 sits inside image_delete.
ImageDeleteEnds_swallowing(e) ==
    IF e = "" \/ e = "NotFound"
    THEN IF cmd = "image_upload" THEN Goto("upload_190") ELSE Return
    ELSE Raise(e)

\* image_delete ends with exception e ("" for a normal return): inside
\* image_upload (line 185) control goes on to line 190 when e is none or is
\* caught; as the command itself, it ends the process.
ImageDeleteEnds(e) ==
    IF cmd = "image_upload"
    THEN IF e = "" \/ upload_catches(e) THEN Goto("upload_190") ELSE Raise(e)
    ELSE IF e = "" THEN Return ELSE Raise(e)

\* Line 197: image = nova.images.find(name=name).
image_delete_197 ==
    /\ pc = "imgdel_197"
    /\ \E r \in Answers :
         LET e == IF r = "fail" THEN "ClientException" ELSE find_image(images)
         IN IF e = ""
            THEN /\ image' = CHOOSE i \in images : TRUE
                 /\ Goto("imgdel_198")
            ELSE /\ UNCHANGED image
                 /\ ImageDeleteEnds(e)
    /\ UNCHANGED <<backend, status, ping_response, history>>

\* Line 198: glance.images.delete(image.id).  The image store answers 404
\* (glance's HTTPNotFound) when the image is gone by now.
image_delete_198 ==
    /\ pc = "imgdel_198"
    /\ calls' = Append(calls, "images.delete")
    /\ IF image \in images
       THEN \/ images' = images \ {image} /\ ImageDeleteEnds("")
            \/ UNCHANGED images /\ ImageDeleteEnds("ClientException")
       ELSE UNCHANGED images /\ ImageDeleteEnds("HTTPNotFound")
    /\ UNCHANGED <<servers, info, nextId, deleting, nextImg, locals, last_status, nq,
                   nProbe, slept, sawVm, sawActive, probedOk, created>>

\* Line 190: with open(imagefile) as fimage.
image_upload_190 ==
    /\ pc = "upload_190"
    /\ \E readable \in BOOLEAN :
         IF readable THEN Goto("upload_191") ELSE Raise("IOError")
    /\ UNCHANGED <<backend, locals, history>>

\* Line 191: image = glance.images.create(name=name, ...).
image_upload_191 ==
    /\ pc = "upload_191"
    /\ calls' = Append(calls, "images.create")
    /\ \/ /\ nextImg <= MaxImages
          /\ images' = images \cup {nextImg}
          /\ nextImg' = nextImg + 1
          /\ image' = nextImg
          /\ Goto("upload_192")
       \/ /\ Raise("ClientException")
          /\ UNCHANGED <<images, nextImg, image>>
    /\ UNCHANGED <<servers, info, nextId, deleting, status, ping_response, last_status,
                   nq, nProbe, slept, sawVm, sawActive, probedOk, created>>

\* Line 192: glance.images.upload(image.id, fimage, 'rb').
image_upload_192 ==
    /\ pc = "upload_192"
    /\ calls' = Append(calls, "images.upload")
    /\ IF image \in images
       THEN Return \/ Raise("ClientException")
       ELSE Raise("HTTPNotFound")
    /\ UNCHANGED <<backend, locals, last_status, nq, nProbe, slept, sawVm, sawActive,
                   probedOk, created>>

\* ------------------------------------------------------------------ Next
Next ==
    \/ main
    \/ CloudBoot \/ CloudUpdate \/ CloudRemove \/ CloudImage
    \/ main_status_255 \/ main_status_256
    \/ vm_create_48 \/ vm_create_50 \/ vm_create_51
    \/ vm_create_54 \/ vm_create_64 \/ vm_create_67
    \/ vm_create_73 \/ vm_create_75 \/ vm_create_81
    \/ main_create_253
    \/ vm_delete_90 \/ vm_delete_90_call \/ vm_delete_98
    \/ vm_stop_157 \/ vm_stop_160 \/ vm_stop_161 \/ vm_stop_162
    \/ vm_start_169 \/ vm_start_172 \/ vm_start_173 \/ vm_start_174
    \/ image_delete_197 \/ image_delete_198
    \/ image_upload_190 \/ image_upload_191 \/ image_upload_192

Spec == Init /\ [][Next]_vars

\* The steps of the process itself: it runs until it exits.
Tool ==
    \/ main
    \/ main_status_255 \/ main_status_256
    \/ vm_create_48 \/ vm_create_50 \/ vm_create_51
    \/ vm_create_54 \/ vm_create_64 \/ vm_create_67
    \/ vm_create_73 \/ vm_create_75 \/ vm_create_81
    \/ main_create_253
    \/ vm_delete_90 \/ vm_delete_90_call \/ vm_delete_98
    \/ vm_stop_157 \/ vm_stop_160 \/ vm_stop_161 \/ vm_stop_162
    \/ vm_start_169 \/ vm_start_172 \/ vm_start_173 \/ vm_start_174
    \/ image_delete_197 \/ image_delete_198
    \/ image_upload_190 \/ image_upload_191 \/ image_upload_192

\* The process with its loops unbounded: it takes its next step whenever it
\* has one; the cloud and the other clients are under no obligation.
LiveSpec == LiveInit /\ [][Next]_vars /\ WF_vars(Tool)

\* ======================================================================
\* Properties
\* ======================================================================
Returned(c) == cmd = c /\ outcome = "returned"

\* A vm_status call was made at one of the sites in S by this step.
Queried(S) == \E site \in S : nq'[site] = nq[site] + 1

\* C1: vm_create returns only after a status query observed ACTIVE and,
\* after that, a ping succeeded; no ping is attempted before the first
\* ACTIVE observation.
C1_CreateReturnsActiveAndReachable ==
    /\ Returned("vm_create") => (sawActive /\ probedOk /\ nProbe > 0)
    /\ nProbe > 0 => sawActive

\* vm_create returned after a status wait of two queries and one ping.
C1_Witness ==
    /\ Returned("vm_create")
    /\ nq["wait"] = 2 /\ nq["reach"] = 1 /\ nProbe = 1

\* C2: vm_delete, when every status query it made found no VM, issues no
\* mutation call, does not raise, and returns at its first query of the wait
\* loop.
C2_DeleteAbsentIsNoOp ==
    (cmd = "vm_delete" /\ ~sawVm /\ last_status # Failed) =>
        /\ calls = << >>
        /\ outcome # "raised"
        /\ nq["first"] = 0 => (pc = "delete_90" /\ nq["wait"] = 0)
        /\ nq["first"] = 1 /\ nq["wait"] = 0 => pc = "delete_98"
        /\ nq["wait"] > 0 => (nq["wait"] = 1 /\ outcome = "returned" /\ exit = "ok")

\* vm_delete returned having seen no VM in its two queries.
C2_Witness ==
    /\ Returned("vm_delete") /\ ~sawVm
    /\ nq["first"] = 1 /\ nq["wait"] = 1 /\ calls = << >>

\* C3: the step by which vm_delete returns is a status query of the wait
\* loop that found no VM; vm_delete is never returned with a most recent
\* status query that found a VM.
C3_DeleteReturnsOnAbsent ==
    [][ (cmd = "vm_delete" /\ outcome # "returned" /\ outcome' = "returned")
          => (Queried({"wait"}) /\ last_status' = None /\ servers = << >>) ]_vars

\* vm_delete returned after it requested the deletion and polled while the
\* VM was still listed.
C3_Witness ==
    /\ Returned("vm_delete") /\ sawVm
    /\ calls = <<"server.delete">> /\ nq["wait"] = 2

\* C4: vm_start whose first query observed the VM running, and vm_stop whose
\* first query observed it not running, issue no mutation call and return
\* with that query, without polling.
C4_StartStopIdempotent ==
    /\ ( /\ cmd = "vm_start" /\ nq["first"] = 1 /\ nq["wait"] = 0
         /\ IsDict(last_status) /\ last_status.power_state = RUNNING )
         => (calls = << >> /\ outcome = "returned" /\ exit = "ok")
    /\ ( /\ cmd = "vm_stop" /\ nq["first"] = 1 /\ nq["wait"] = 0
         /\ IsDict(last_status) /\ last_status.power_state # RUNNING )
         => (calls = << >> /\ outcome = "returned" /\ exit = "ok")

\* vm_stop returned from its first query, the VM not running.
C4_Witness ==
    /\ Returned("vm_stop") /\ nq["first"] = 1 /\ nq["wait"] = 0
    /\ IsDict(last_status) /\ last_status.power_state # RUNNING
    /\ calls = << >>

\* C5: when vm_start has returned its most recent status query observed
\* power_state == 1, and when vm_stop has returned its most recent status
\* query observed power_state != 1.
C5_StartStopReturnInTargetState ==
    /\ Returned("vm_start") =>
         (IsDict(last_status) /\ last_status.power_state = RUNNING)
    /\ Returned("vm_stop") =>
         (IsDict(last_status) /\ last_status.power_state # RUNNING)

\* vm_stop returned after it issued the stop request and polled twice.
C5_Witness ==
    /\ Returned("vm_stop") /\ calls = <<"server.stop">> /\ nq["wait"] = 2

\* C6: a vm_status call made while no VM is listed under the name, and
\* answered by the cloud, gives None, raises nothing, is one query and changes
\* neither the cloud nor the list of mutation calls.
C6_StatusAbsentIsNone ==
    [][ (Queried(Sites) /\ servers = << >> /\ last_status' # Failed)
          => /\ last_status' = None
             /\ Total(nq') = Total(nq) + 1
             /\ UNCHANGED <<calls, backend>>
             /\ pc = "status_255" => (outcome' = "returned" /\ error' = "") ]_vars

\* --status got None from vm_status.
C6_Witness ==
    /\ Returned("vm_status") /\ last_status = None /\ nq["first"] = 1
    /\ calls = << >>

Before(a, b) ==
    \A i, j \in 1..Len(calls) : (calls[i] = a /\ calls[j] = b) => i < j

\* The step of the lookup of line 197 that the cloud answered.
Looked == pc = "imgdel_197" /\ pc' # pc /\ error' # "ClientException"

\* C7: image_upload issues the deletion of an existing image of the name
\* before the creation of the new one; when there is none, NotFound is
\* swallowed and the upload goes on to open the file, create and upload.
C7_UploadDeletesBeforeCreate ==
    /\ [](cmd = "image_upload" =>
            /\ Before("images.delete", "images.create")
            /\ Before("images.create", "images.upload")
            /\ error # "NotFound"
            /\ pc \in {"upload_190", "upload_191"} =>
                 calls = IF image = 0 THEN << >> ELSE <<"images.delete">>)
    /\ [][ (cmd = "image_upload" /\ Looked) =>
             /\ Cardinality(images) = 1 =>
                  (pc' = "imgdel_198" /\ image' \in images)
             /\ images = {} =>
                  (pc' = "upload_190" /\ outcome' = "running" /\ image' = 0) ]_vars

\* image_upload returned having replaced an existing image.
C7_Witness ==
    /\ Returned("image_upload")
    /\ calls = <<"images.delete", "images.create", "images.upload">>

\* image_upload returned, no image of the name having existed.
C7_WitnessFresh ==
    /\ Returned("image_upload")
    /\ calls = <<"images.create", "images.upload">>

\* C8: image_delete for a name no image carries ends in NotFound, which
\* reaches the caller; no delete call is issued and the images are unchanged.
C8_ImageDeleteNotFound ==
    [][ (cmd = "image_delete" /\ Looked /\ images = {}) =>
          /\ outcome' = "raised" /\ error' = "NotFound" /\ exit' = "crash"
          /\ calls' = << >>
          /\ images' = images ]_vars

\* image_delete ended in NotFound.
C8_Witness ==
    /\ cmd = "image_delete" /\ outcome = "raised" /\ error = "NotFound"
    /\ images = {} /\ calls = << >>

\* The most recent status query was made in a polling loop of command c and
\* found no VM.
AbsentInWait(c) ==
    /\ cmd = c /\ last_status = None
    /\ nq["wait"] + nq["reach"] > 0 /\ nq["main"] = 0

\* C9 as stated: in the create status wait, the create reachability wait, the
\* start wait and the stop wait, a status query that finds no VM does not end
\* the operation with an error.
C9_AbsenceSwallowedInEveryWait ==
    \A c \in {"vm_create", "vm_start", "vm_stop"} :
        AbsentInWait(c) => outcome # "raised"

\* C9 as amended: in the create status wait and the create reachability wait
\* a status query that finds no VM is swallowed and the loop queries again; in
\* the start wait and the stop wait it ends the operation with a TypeError.
C9_AbsenceSwallowedInCreateWaits ==
    /\ AbsentInWait("vm_create") =>
         /\ outcome = "running" /\ error = ""
         /\ pc = IF nq["reach"] = 0 THEN "create_64" ELSE "create_73"
    /\ \A c \in {"vm_start", "vm_stop"} :
         AbsentInWait(c) => (outcome = "raised" /\ error = "TypeError")

\* vm_create found no VM in its status wait and in its reachability wait, and
\* is still polling.
C9_Witness ==
    /\ AbsentInWait("vm_create") /\ sawActive
    /\ nq["wait"] = 2 /\ nq["reach"] = 1 /\ outcome = "running"

\* vm_start ended with a TypeError when the VM vanished during its wait.
C9_WitnessStart ==
    AbsentInWait("vm_start") /\ outcome = "raised" /\ calls = <<"server.start">>

\* C10: in every polling loop (create status wait, create reachability wait,
\* delete wait, start wait, stop wait) a sleep runs between two consecutive
\* status queries: whenever a loop is about to query again, a sleep has run
\* since its previous query.
C10_SleepBetweenQueries ==
    /\ (pc \in {"create_64", "delete_98", "start_173", "stop_161"}
          /\ nq["wait"] > 0) => slept
    /\ (pc = "create_73" /\ nq["reach"] > 0) => slept

\* The one mutation call of each VM operation.
MutationOf(c) ==
    CASE c = "vm_create" -> "servers.create"
      [] c = "vm_delete" -> "server.delete"
      [] c = "vm_start"  -> "server.start"
      [] c = "vm_stop"   -> "server.stop"

\* C11: vm_create, vm_delete, vm_start and vm_stop issue at most one mutation
\* call, their own, and issue it before the first query of a polling loop;
\* every query of a polling loop reads the cloud afresh and changes neither
\* the cloud nor the list of mutation calls.
C11_PollingHasNoSideEffect ==
    /\ [](cmd \in {"vm_create", "vm_delete", "vm_start", "vm_stop"} =>
            (calls = << >> \/ calls = <<MutationOf(cmd)>>))
    /\ [][ calls' # calls => (nq["wait"] = 0 /\ nq["reach"] = 0) ]_vars
    /\ [][ Queried({"wait", "reach"}) =>
             /\ UNCHANGED <<calls, backend>>
             /\ last_status' \in {Failed, vm_status(servers, info)} ]_vars

\* vm_stop issued its stop request and then polled twice.
C11_Witness ==
    /\ cmd = "vm_stop" /\ calls = <<"server.stop">> /\ nq["wait"] = 2
    /\ pc = "stop_162"

\* C12: vm_create polls exactly until both conditions hold.  The status wait
\* makes no query after the one that observed ACTIVE; in the reachability
\* wait every query that finds the VM is followed by exactly one ping, a
\* failed ping by the next query, and the successful ping by the return,
\* with no further query or ping.
C12_CreatePollsExactly ==
    /\ [](cmd = "vm_create" =>
            /\ pc = "create_64" => ~sawActive
            /\ pc \in {"create_73", "create_75"} => ~ping_response
            /\ nProbe <= nq["reach"]
            /\ outcome = "returned" => (nq["wait"] >= 1 /\ nProbe >= 1))
    /\ [][ cmd = "vm_create" =>
             /\ (pc = "create_73" /\ Queried({"reach"}) /\ IsDict(last_status'))
                  => (pc' = "create_75" /\ nProbe' = nProbe)
             /\ (pc = "create_75" /\ pc' # pc)
                  => /\ nProbe' = nProbe + 1 /\ nq' = nq
                     /\ pc' = IF ping_response' THEN "create_81" ELSE "create_73"
             /\ (pc = "create_81" /\ pc' # pc)
                  => (outcome' = "returned" /\ nq' = nq /\ nProbe' = nProbe) ]_vars

\* vm_create returned after one status query in the status wait (ACTIVE at
\* once) and two pings (the second one succeeded), two queries before them.
C12_Witness ==
    /\ Returned("vm_create") /\ nq["main"] = 0
    /\ nq["wait"] = 1 /\ nq["reach"] = 2 /\ nProbe = 2

\* The most recent status query was made in a polling loop of command c and
\* raised out of the client library (connection lost, token expired, ...).
FailedInWait(c) ==
    /\ cmd = c /\ last_status = Failed
    /\ nq["wait"] + nq["reach"] > 0 /\ nq["main"] = 0

\* C13 as stated: in every polling loop (create status wait, create
\* reachability wait, delete wait, start wait, stop wait) a status query that
\* fails with an error other than absence is caught and the loop retries: the
\* operation never ends with an error from inside a polling loop.
C13_EveryWaitSwallowsEveryError ==
    \A c \in {"vm_create", "vm_delete", "vm_start", "vm_stop"} :
        FailedInWait(c) => outcome # "raised"

\* C13 as amended: only the reachability wait of vm_create swallows every
\* exception and queries again; in the create status wait, the delete wait,
\* the start wait and the stop wait such an error ends the operation.
C13_OnlyReachabilityWaitSwallowsAll ==
    /\ (FailedInWait("vm_create") /\ nq["reach"] > 0) =>
         (outcome = "running" /\ error = "" /\ pc = "create_73")
    /\ (FailedInWait("vm_create") /\ nq["reach"] = 0) =>
         (outcome = "raised" /\ error = "ClientException")
    /\ \A c \in {"vm_delete", "vm_start", "vm_stop"} :
         FailedInWait(c) => (outcome = "raised" /\ error = "ClientException")

\* A status query of the reachability wait failed, after a failed ping, and
\* vm_create is still polling.
C13_Witness ==
    /\ FailedInWait("vm_create") /\ nq["reach"] = 2 /\ nProbe = 1
    /\ outcome = "running"

\* vm_delete ended with the error of a failed status query of its wait loop.
C13_WitnessDelete ==
    FailedInWait("vm_delete") /\ outcome = "raised" /\ calls = <<"server.delete">>

\* C17: image_upload replaces: when it found an image of the name and nobody
\* else removed an image meanwhile, an image of the name exists when it has
\* ended, whether it succeeded or failed.
C17_UploadKeepsAnImage ==
    ( /\ cmd = "image_upload" /\ pc = "exit"
      /\ calls # << >> /\ calls[1] = "images.delete"
      /\ error # "HTTPNotFound" )
    => images # {}

\* C18: vm_start and vm_stop whose status query finds no VM end with an
\* error that reaches the caller: the first query before any mutation call
\* and before the polling loop, a query of the polling loop instead of
\* waiting on.
C18_StartStopRaiseOnAbsent ==
    \A c \in {"vm_start", "vm_stop"} :
        (cmd = c /\ last_status = None) =>
            /\ outcome = "raised" /\ error = "TypeError" /\ exit = "crash"
            /\ pc = "exit"
            /\ nq["wait"] = 0 => (calls = << >> /\ nq["first"] = 1)
            /\ nq["wait"] > 0 => calls = <<MutationOf(c)>>

\* vm_stop ended with a TypeError when the VM vanished during its wait,
\* after one query that still found it running.
C18_Witness ==
    /\ cmd = "vm_stop" /\ last_status = None /\ outcome = "raised"
    /\ nq["wait"] = 2 /\ calls = <<"server.stop">>

\* vm_start for a name without a VM ended with a TypeError at its first query.
C18_WitnessFirst ==
    /\ cmd = "vm_start" /\ last_status = None /\ outcome = "raised"
    /\ nq["first"] = 1 /\ nq["wait"] = 0 /\ calls = << >>

\* C19: --status for a name without a VM ends normally.
C19_StatusCommandAbsentEndsOk ==
    (cmd = "vm_status" /\ pc = "exit" /\ last_status = None) => exit = "ok"

\* C16: when vm_create has returned, the address it probed last (the one of
\* the status dict its last query gave, lines 73-75) is the address of the
\* server this invocation created.
C16_CreateProbedItsOwnVm ==
    (cmd = "vm_create" /\ pc = "main_253") =>
        (IsDict(last_status) /\ last_status.server = created)

\* The ping of line 75 answers.
ProbeAnswers == vm_create_75 /\ ping_response'

\* Every call the process made so far was answered: nothing was raised to
\* end it.
Answered == error = ""

\* C14: once its create request was accepted, and for as long as no query
\* has shown ACTIVE and none has failed, vm_create has neither returned nor
\* raised: it is in the status wait.  If no query ever shows ACTIVE (the VM
\* stays in BUILD or ERROR, or stays absent) and none fails, it polls again
\* and again for ever.  And it returns eventually when its create request
\* was accepted, from some time on the VM is listed ACTIVE and the latest
\* query was answered, and a ping that is tried again and again answers.
C14_CreatePollsUntilActive ==
    /\ []( (cmd = "vm_create" /\ created # 0 /\ ~sawActive /\ last_status # Failed) =>
             ( /\ outcome = "running" /\ error = "" /\ exit = ""
               /\ pc \in {"create_64", "create_67"} ) )
    /\ ( /\ [](cmd \in {"none", "vm_create"})
         /\ [](~sawActive /\ last_status # Failed)
         /\ <>(created # 0) )
       => /\ []<>(pc = "create_64" /\ last_status # NoCall)
          /\ [](outcome # "returned" /\ (created # 0 => outcome # "raised"))
    /\ ( /\ [](cmd \in {"none", "vm_create"})
         /\ <>(created # 0)
         /\ <>[](servers # << >> /\ info.status = "ACTIVE" /\ last_status # Failed)
         /\ SF_vars(ProbeAnswers) )
       => <>(Returned("vm_create") /\ error = "")

\* vm_create saw the VM it created in ERROR, slept, and is about to query again.
C14_Witness ==
    /\ cmd = "vm_create" /\ pc = "create_64" /\ slept /\ ~counting
    /\ IsDict(last_status) /\ last_status.server = created
    /\ last_status.status = "ERROR" /\ info.status = "ERROR"

\* C15: vm_delete returns eventually, whatever the cloud held when it was
\* called (n - 1 servers of the name ever booted, any number of them still
\* listed), provided nobody boots another server of the name once it has
\* made its first query, its calls are answered and every deletion it
\* requested gets completed.
C15_DeleteReturns ==
    \A n \in 1..(MaxServers + 1) :
        ( /\ [](cmd \in {"none", "vm_delete"} /\ Answered)
          /\ [](last_status # NoCall => nextId = n)
          /\ <>[](deleting = {} /\ last_status # Failed) )
        => <>Returned("vm_delete")

====
